---- MODULE Spec2Model ----
(***************************************************************************)
(* A state-machine model of the GuardUp proxy server (src/server.ts): the  *)
(* per-request handler handleRequest with its deadline timer, the          *)
(* directory lookup fetchTargetUrl, the hand-off to the shared http-proxy  *)
(* instance, and the process lifecycle (signals, graceful shutdown).       *)
(*                                                                         *)
(* Strings are modelled as sequences of words, so that the substring tests *)
(* of the catch block (error.message.includes(...)) are computed on the    *)
(* text of the message, the interpolated parts included.                   *)
(***************************************************************************)
EXTENDS Integers, Sequences, FiniteSets, TLC

\* ------------------------------------------------------------------ bounds

\* How many termination signals the environment may deliver.
MaxSignals == 2

\* How many connections (one request each) the server accepts.
MaxReqs == 2

\* The connections, numbered in the order the server accepts them.
Reqs == 1..MaxReqs

\* The longest Host value, in words, handed to extractProxyId on its own.
MaxHostLen == 5

\* How many times the 'proxyRes' listener is run on one response.
MaxHookRuns == 2

\* ----------------------------------------------------------------- strings

\* String.prototype.includes on word sequences: phrase occurs contiguously.
Includes(msg, phrase) ==
  \E i \in 1..(Len(msg) - Len(phrase) + 1) :
     SubSeq(msg, i, i + Len(phrase) - 1) = phrase

\* String.prototype.split('.') on a host given as words; "." is its own word.
RECURSIVE Split(_)
Split(s) ==
  IF \A i \in 1..Len(s) : s[i] # "."
    THEN <<s>>
    ELSE LET k == CHOOSE i \in 1..Len(s) :
                    s[i] = "." /\ \A j \in 1..(i - 1) : s[j] # "."
         IN  <<SubSeq(s, 1, k - 1)>> \o Split(SubSeq(s, k + 1, Len(s)))

\* Every sequence of at most n words of S.
Words(S, n) == UNION { [1..k -> S] : k \in 0..n }

\* The value of req.headers.host when the header is absent.
NoHost == <<"undefined">>

\* Host headers the clients send: absent, two labels, three labels, and
\* three labels whose first label holds the words "Permission denied".
Hosts ==
  { NoHost,
    <<"abc", ".", "com">>,
    <<"abc", ".", "example", ".", "com">>,
    <<"Permission", "denied", ".", "example", ".", "com">> }

\* A request: its Host header and the "method" its body declares.
Request(host, method) == [host |-> host, method |-> method]

\* The requests the clients send.
Requests ==
  { Request(h, "initialize") : h \in Hosts }
    \cup { Request(<<"abc", ".", "example", ".", "com">>, "invoke_something") }

\* The request target the clients send.
RequestUrl == <<"/", "foo", "?", "x=1">>

\* !req.headers.host : the header is absent or the empty string.
HostMissing(host) == host = NoHost \/ host = <<>>

\* ---------------------------------------------------------------- messages

MsgInvalidHost ==
  <<"Invalid", "host", "format", ".", "Expected", "format", ":",
    "<proxy-id>.<domain>.<tld>">>

MsgNetwork(cause) ==
  <<"Network", "error", "when", "fetching", "MCP", "server", "URL", ":">>
    \o cause

MsgPermission ==
  <<"Permission", "denied", ":", "additional", "authentication", "required">>

MsgNotOk(proxyId, status, statusText) ==
  <<"Failed", "to", "fetch", "MCP", "server", "URL", "for", "ID", ":">>
    \o proxyId \o <<".", "Status", ":", ToString(status)>> \o statusText

MsgInvalidJson == <<"Invalid", "JSON", "response", "from", "server">>

MsgInvalidFormat == <<"Invalid", "response", "format", "from", "server">>

MsgInvalidTarget(targetUrl) ==
  <<"Invalid", "target", "URL", "format", ":">> \o targetUrl

\* extractProxyId accepting a host of two labels.
extractProxyIdTwoLabels(host) ==
  LET hostParts == Split(host)
  IN  IF Len(hostParts) < 2
        THEN [ok |-> FALSE, id |-> <<>>, msg |-> MsgInvalidHost]
        ELSE [ok |-> TRUE, id |-> hostParts[1], msg |-> <<>>]

\* extractProxyId asking for more than three labels.
extractProxyIdOffByOne(host) ==
  LET hostParts == Split(host)
  IN  IF Len(hostParts) <= 3
        THEN [ok |-> FALSE, id |-> <<>>, msg |-> MsgInvalidHost]
        ELSE [ok |-> TRUE, id |-> hostParts[1], msg |-> <<>>]

\* extractProxyId: the first label, or the thrown message.
extractProxyId(host) ==
  LET hostParts == Split(host)
  IN  IF Len(hostParts) < 3
        THEN [ok |-> FALSE, id |-> <<>>, msg |-> MsgInvalidHost]
        ELSE [ok |-> TRUE, id |-> hostParts[1], msg |-> <<>>]

\* ------------------------------------------------- directory service answers

\* A JSON value: its typeof, and its text as words.
Undefined == [t |-> "undefined", s |-> <<>>]
Str(s) == [t |-> "string", s |-> s]
Num(n) == [t |-> "number", s |-> <<n>>]
Bool(b) == [t |-> "boolean", s |-> <<b>>]

\* What one call of fetch(fetchUrl) yields: a network failure (net = FALSE)
\* or a response with status, statusText and a body that is JSON or not.
Answer(net, status, statusText, json, url, requireAuth) ==
  [net |-> net, status |-> status, statusText |-> statusText,
   json |-> json, url |-> url, requireAuth |-> requireAuth]

Response(status, statusText) ==
  Answer(TRUE, status, statusText, FALSE, Undefined, Undefined)

Json(url, requireAuth) == Answer(TRUE, 200, <<"OK">>, TRUE, url, requireAuth)

UrlApi == <<"https:", "//", "backend.example.org", "/", "api">>
UrlOther == <<"http:", "//", "other.example.org", "/">>

NetworkFailure == Answer(FALSE, 0, <<"fetch", "failed">>, FALSE, Undefined, Undefined)

Answers ==
  { NetworkFailure,
    Response(403, <<"Forbidden">>),
    Response(500, <<"Internal", "Server", "Error">>),
    Response(404, <<"Permission", "denied">>),
    Response(200, <<"OK">>),
    Json(Undefined, Bool("true")),
    Json(Num("42"), Bool("false")),
    Json(Str(<<"not-a-url">>), Bool("false")),
    Json(Str(<<"Permission", "denied">>), Bool("false")),
    Json(Str(UrlApi), Bool("true")),
    Json(Str(UrlOther), Bool("false")),
    Json(Str(UrlApi), Undefined),
    Json(Str(UrlOther), Str(<<"yes">>)) }

\* response.ok
Ok(a) == a.status >= 200 /\ a.status <= 299

\* fetchTargetUrl(proxyId) against the answer a of the directory service:
\* the url returned, or the message of the error thrown.
Throw(msg) == [ok |-> FALSE, url |-> <<>>, msg |-> msg]
Return(url) == [ok |-> TRUE, url |-> url, msg |-> <<>>]

fetchTargetUrl(proxyId, a) ==
  IF ~a.net THEN Throw(MsgNetwork(a.statusText))
  ELSE IF a.status = 403 THEN Throw(MsgPermission)
  ELSE IF ~Ok(a) THEN Throw(MsgNotOk(proxyId, a.status, a.statusText))
  ELSE IF ~a.json THEN Throw(MsgInvalidJson)
  ELSE IF a.url.t # "string" THEN Throw(MsgInvalidFormat)
  ELSE Return(a.url.s)

\* The words of s before the first word that is in marks; s when none is.
Before(s, marks) ==
  IF \A i \in 1..Len(s) : s[i] \notin marks
    THEN s
    ELSE LET k == CHOOSE i \in 1..Len(s) :
                    s[i] \in marks /\ \A j \in 1..(i - 1) : s[j] \notin marks
         IN  SubSeq(s, 1, k - 1)

\* new URL(targetUrl): an absolute URL has a scheme, "//" and an authority.
\* origin is scheme//authority, pathname what follows up to the query or the
\* fragment ("/" when there is nothing).
URL(targetUrl) ==
  IF /\ Len(targetUrl) >= 3
     /\ targetUrl[1] \in {"http:", "https:"}
     /\ targetUrl[2] = "//"
    THEN [ok |-> TRUE,
          origin |-> SubSeq(targetUrl, 1, 3),
          pathname |->
            LET rest == Before(SubSeq(targetUrl, 4, Len(targetUrl)), {"?", "#"})
            IN  IF rest = <<>> THEN <<"/">> ELSE rest]
    ELSE [ok |-> FALSE, origin |-> <<>>, pathname |-> <<>>]

\* url.parse(url): path is the pathname and the search, without the fragment.
parse(url) == [path |-> Before(url, {"#"})]

\* String.prototype.replace(/\/+$/, ''): the trailing slashes removed.
RECURSIVE StripTrailingSlashes(_)
StripTrailingSlashes(p) ==
  IF p # <<>> /\ p[Len(p)] = "/"
    THEN StripTrailingSlashes(SubSeq(p, 1, Len(p) - 1))
    ELSE p

\* req.url || '/' and parsedUrl.path || '/'
OrSlash(s) == IF s = <<>> THEN <<"/">> ELSE s

\* The rewrite of req.url that keeps the target's trailing slashes.
RewriteUrlKeepSlashes(target, url) ==
  target.pathname \o OrSlash(parse(OrSlash(url)).path)

\* The value handleRequest gives req.url before forwarding.
RewriteUrl(target, url) ==
  StripTrailingSlashes(target.pathname) \o OrSlash(parse(OrSlash(url)).path)

\* The catch block without its 'Failed to fetch' / 'Network error' case.
CatchStatusNoUpstreamCase(msg) ==
  IF Includes(msg, <<"Permission", "denied">>) THEN 403
  ELSE IF Includes(msg, <<"Invalid", "host", "format">>) THEN 400
  ELSE IF \/ Includes(msg, <<"Invalid", "JSON">>)
          \/ Includes(msg, <<"Invalid", "response", "format">>) THEN 502
  ELSE 500

\* The catch block's choice of status code from the error message.
CatchStatus(msg) ==
  IF Includes(msg, <<"Permission", "denied">>) THEN 403
  ELSE IF Includes(msg, <<"Invalid", "host", "format">>) THEN 400
  ELSE IF \/ Includes(msg, <<"Failed", "to", "fetch">>)
          \/ Includes(msg, <<"Network", "error">>) THEN 502
  ELSE IF \/ Includes(msg, <<"Invalid", "JSON">>)
          \/ Includes(msg, <<"Invalid", "response", "format">>) THEN 502
  ELSE 500

\* ------------------------------------------------------------------- state

VARIABLES
  stage,           \* per request: "none" (not arrived), "lookup" (awaiting
                   \* fetch), "forwarding" (proxy.web called), "streaming"
                   \* (backend response being piped), "done" (nothing left
                   \* to run), "failed" (the transport reported an error)
  reqIn,           \* per request: req.headers.host and the body's method
  reqUrl,          \* per request: req.url
  requestTimeout,  \* per request: the 30 s timer of handleRequest
  res,             \* per request: the http.ServerResponse
  reqDestroyed,    \* per request: req.destroyed
  closed,          \* per request: the connection closed, res emitted 'close'
  closeHandler,    \* per request: res.on('close') is registered
  lookup,          \* per request: what the directory service sent back
  dirCalls,        \* per request: calls of fetch(fetchUrl)
  webCalls,        \* per request: calls of proxy.web
  webTarget,       \* per request: the target option given to proxy.web
  errorListeners,  \* requests whose errorHandler is on proxy ('error', once)
  proc,            \* "running" or "exited"
  exitCode,        \* the code given to process.exit
  exitBy,          \* which process.exit call ended the process
  listening,       \* the server's listen handle is open
  closeCbs,        \* callbacks waiting for the server's 'close' event
  forceTimers,     \* armed 10 s timers of gracefulShutdown
  signals,         \* termination signals delivered so far
  call             \* the function exercised on its own: arguments and result

reqVars ==
  <<stage, reqIn, reqUrl, requestTimeout, res, reqDestroyed, closed,
    closeHandler, lookup, dirCalls, webCalls, webTarget, errorListeners>>

procVars == <<proc, exitCode, exitBy, listening, closeCbs, forceTimers, signals>>

vars == <<reqVars, procVars, call>>

NoAnswer == Answer(FALSE, -1, <<>>, FALSE, Undefined, Undefined)

\* No function is exercised on its own.
NoCall == [fn |-> "none"]

NewResponse == [headersSent |-> FALSE, statusCode |-> 200, finished |-> FALSE, writes |-> 0]

\* No request has arrived.
Fresh ==
  /\ stage = [r \in Reqs |-> "none"]
  /\ reqIn = [r \in Reqs |-> Request(NoHost, "initialize")]
  /\ reqUrl = [r \in Reqs |-> <<>>]
  /\ requestTimeout = [r \in Reqs |-> "unset"]
  /\ res = [r \in Reqs |-> NewResponse]
  /\ reqDestroyed = [r \in Reqs |-> FALSE]
  /\ closed = [r \in Reqs |-> FALSE]
  /\ closeHandler = [r \in Reqs |-> FALSE]
  /\ lookup = [r \in Reqs |-> NoAnswer]
  /\ dirCalls = [r \in Reqs |-> 0]
  /\ webCalls = [r \in Reqs |-> 0]
  /\ webTarget = [r \in Reqs |-> <<>>]
  /\ errorListeners = {}

\* The server has started and listens.
Started ==
  /\ Fresh
  /\ proc = "running"
  /\ exitCode = -1
  /\ exitBy = "none"
  /\ listening = TRUE
  /\ closeCbs = <<>>
  /\ forceTimers = 0
  /\ signals = 0

Init ==
  /\ Started
  /\ call = NoCall

\* ------------------------------------------------------- response helpers

\* res.writeHead(status, ...) followed by res.end(text)
Respond(rs, status) ==
  [rs EXCEPT !.headersSent = TRUE, !.statusCode = status,
             !.finished = TRUE, !.writes = @ + 1]

\* handleRequest starting without its timer.
setTimeoutMissing == "unset"

\* setTimeout(..., 30000): the timer of a request, armed.
setTimeout == "armed"

\* clearTimeout: a timer that has fired stays fired.
clearTimeout(t) == IF t = "fired" THEN "fired" ELSE "cleared"

\* res emits 'close': the handler registered before forwarding, if it is,
\* clears the timer t of request r.
OnClose(r, t) == IF closeHandler[r] THEN clearTimeout(t) ELSE t

\* The callback of requestTimeout answering 500 instead of 504.
TimeoutCallback500(rs) ==
  IF ~rs.headersSent THEN Respond(rs, 500) ELSE rs

\* The callback of requestTimeout without its res.headersSent test.
TimeoutCallbackUnguarded(rs) == Respond(rs, 504)

\* The callback of requestTimeout, on the response.
TimeoutCallback(rs) ==
  IF ~rs.headersSent THEN Respond(rs, 504) ELSE rs

\* errorHandler without its res.headersSent test.
errorHandlerUnguarded(rs) == Respond(rs, 502)

\* errorHandler, registered with proxy.once('error', ...).
errorHandler(rs) ==
  IF ~rs.headersSent THEN Respond(rs, 502) ELSE rs

\* The catch block ending with process.exit(1), as startServer's does.
CatchExits(r, msg) ==
  /\ requestTimeout' = [requestTimeout EXCEPT ![r] = clearTimeout(@)]
  /\ res' = [res EXCEPT ![r] =
               IF @.headersSent THEN @ ELSE Respond(@, CatchStatus(msg))]
  /\ stage' = [stage EXCEPT ![r] = "done"]
  /\ proc' = "exited"
  /\ exitCode' = 1
  /\ exitBy' = "request"
  /\ UNCHANGED <<listening, closeCbs, forceTimers, signals, call>>

\* The catch block of handleRequest for an error with message msg.
Catch(r, msg) ==
  /\ requestTimeout' = [requestTimeout EXCEPT ![r] = clearTimeout(@)]
  /\ res' = [res EXCEPT ![r] =
               IF @.headersSent THEN @ ELSE Respond(@, CatchStatus(msg))]
  /\ stage' = [stage EXCEPT ![r] = "done"]
  /\ UNCHANGED procVars

\* A route cache: the answer an earlier request got is used again.
CachedAnswer(r, rec) ==
  IF \E q \in Reqs : q # r /\ lookup[q].net
    THEN lookup[CHOOSE q \in Reqs : q # r /\ lookup[q].net]
    ELSE rec

\* The answer fetch(fetchUrl) resolves with for request r, the directory
\* service sending back rec.
DirectoryAnswer(r, rec) == rec

\* ------------------------------------------------------ request handling

\* A request arrives: handleRequest runs up to its first await.
Arrive(r, rq) ==
  /\ proc = "running"
  /\ listening
  /\ stage[r] = "none"
  /\ \A q \in Reqs : q < r => stage[q] # "none"
  /\ reqIn' = [reqIn EXCEPT ![r] = rq]
  /\ reqUrl' = [reqUrl EXCEPT ![r] = RequestUrl]
  /\ IF HostMissing(rq.host)
       THEN /\ res' = [res EXCEPT ![r] = Respond(@, 400)]
            /\ stage' = [stage EXCEPT ![r] = "done"]
            /\ requestTimeout' = [requestTimeout EXCEPT ![r] = setTimeout]
            /\ UNCHANGED <<dirCalls, procVars>>
       ELSE IF ~extractProxyId(rq.host).ok
         THEN /\ Catch(r, extractProxyId(rq.host).msg)
              /\ UNCHANGED dirCalls
         ELSE /\ dirCalls' = [dirCalls EXCEPT ![r] = @ + 1]
              /\ stage' = [stage EXCEPT ![r] = "lookup"]
              /\ requestTimeout' = [requestTimeout EXCEPT ![r] = setTimeout]
              /\ UNCHANGED <<res, procVars>>
  /\ UNCHANGED <<reqDestroyed, closed, closeHandler, lookup, webCalls,
                 webTarget, errorListeners, call>>

\* The try block calling proxy.web a second time.
ForwardTwice(r, target) ==
  /\ closeHandler' = [closeHandler EXCEPT ![r] = TRUE]
  /\ reqUrl' = [reqUrl EXCEPT ![r] = RewriteUrl(target, @)]
  /\ errorListeners' = errorListeners \cup {r}
  /\ webCalls' = [webCalls EXCEPT ![r] = @ + 2]
  /\ webTarget' = [webTarget EXCEPT ![r] = target.origin]
  /\ stage' = [stage EXCEPT ![r] = "forwarding"]
  /\ UNCHANGED <<requestTimeout, res, procVars>>

\* The rest of the try block once the target URL has parsed.
Forward(r, target) ==
  /\ closeHandler' = [closeHandler EXCEPT ![r] = TRUE]
  /\ reqUrl' = [reqUrl EXCEPT ![r] = RewriteUrl(target, @)]
  /\ errorListeners' = errorListeners \cup {r}
  /\ webCalls' = [webCalls EXCEPT ![r] = @ + 1]
  /\ webTarget' = [webTarget EXCEPT ![r] = target.origin]
  /\ stage' = [stage EXCEPT ![r] = "forwarding"]
  /\ UNCHANGED <<requestTimeout, res, procVars>>

\* The directory service sends back rec, its record at this moment:
\* handleRequest resumes after the await.
FetchComplete(r, rec) ==
  /\ proc = "running"
  /\ stage[r] = "lookup"
  /\ LET a == DirectoryAnswer(r, rec)
         out == fetchTargetUrl(extractProxyId(reqIn[r].host).id, a)
         target == URL(out.url)
     IN  /\ lookup' = [lookup EXCEPT ![r] = rec]
         /\ IF out.ok /\ target.ok
              THEN Forward(r, target)
              ELSE /\ Catch(r, IF out.ok THEN MsgInvalidTarget(out.url)
                                         ELSE out.msg)
                   /\ UNCHANGED <<reqUrl, closeHandler, errorListeners,
                                  webCalls, webTarget>>
  /\ UNCHANGED <<reqIn, reqDestroyed, closed, dirCalls, call>>

\* requestTimeout fires.
TimerFire(r) ==
  /\ proc = "running"
  /\ requestTimeout[r] = "armed"
  /\ requestTimeout' = [requestTimeout EXCEPT ![r] = "fired"]
  /\ res' = [res EXCEPT ![r] = TimeoutCallback(@)]
  /\ reqDestroyed' = [reqDestroyed EXCEPT ![r] = TRUE]
  /\ UNCHANGED <<stage, reqIn, reqUrl, closed, closeHandler, lookup, dirCalls,
                 webCalls, webTarget, errorListeners, procVars, call>>

\* The connection closes and res emits 'close'. http-proxy aborts the
\* outgoing request of a connection that closed (no 'error' is emitted).
ResClose(r) ==
  /\ proc = "running"
  /\ stage[r] # "none"
  /\ ~closed[r]
  /\ closed' = [closed EXCEPT ![r] = TRUE]
  /\ requestTimeout' = [requestTimeout EXCEPT ![r] = OnClose(r, @)]
  /\ stage' = [stage EXCEPT ![r] =
                 IF @ \in {"forwarding", "streaming"} THEN "done" ELSE @]
  /\ UNCHANGED <<reqIn, reqUrl, res, reqDestroyed, closeHandler, lookup,
                 dirCalls, webCalls, webTarget, errorListeners, procVars, call>>

\* ------------------------------------------------- the transport engine

\* The backend's response arrives at http-proxy: it writes status and headers
\* unless they are sent, and pipes the body unless the response is finished.
ProxyResponse(r) ==
  /\ proc = "running"
  /\ stage[r] = "forwarding"
  /\ res' = [res EXCEPT ![r] =
               IF @.headersSent THEN @
               ELSE [@ EXCEPT !.headersSent = TRUE, !.statusCode = 200,
                              !.writes = @ + 1]]
  /\ stage' = [stage EXCEPT ![r] = IF res[r].finished THEN "done" ELSE "streaming"]
  /\ UNCHANGED <<reqIn, reqUrl, requestTimeout, reqDestroyed, closed, closeHandler,
                 lookup, dirCalls, webCalls, webTarget, errorListeners,
                 procVars, call>>

\* The backend's body has been piped: the response ends and, being complete,
\* emits 'close'.
ProxyEnd(r) ==
  /\ proc = "running"
  /\ stage[r] = "streaming"
  /\ res' = [res EXCEPT ![r] = [@ EXCEPT !.finished = TRUE]]
  /\ requestTimeout' = [requestTimeout EXCEPT ![r] = OnClose(r, @)]
  /\ stage' = [stage EXCEPT ![r] = "done"]
  /\ UNCHANGED <<reqIn, reqUrl, reqDestroyed, closed, closeHandler,
                 lookup, dirCalls, webCalls, webTarget, errorListeners,
                 procVars, call>>

\* http-proxy emits 'error' on the proxy for request r: every listener
\* registered with once runs and is removed; the permanent one only logs.
\* A response ended by its errorHandler is complete and emits 'close'.
ProxyError(r) ==
  /\ proc = "running"
  /\ stage[r] \in {"forwarding", "streaming"}
  /\ res' = [q \in Reqs |->
               IF q \in errorListeners THEN errorHandler(res[q]) ELSE res[q]]
  /\ requestTimeout' = [q \in Reqs |->
               IF q \in errorListeners /\ ~res[q].headersSent
                 THEN OnClose(q, requestTimeout[q]) ELSE requestTimeout[q]]
  /\ errorListeners' = {}
  /\ stage' = [stage EXCEPT ![r] = "failed"]
  /\ UNCHANGED <<reqIn, reqUrl, reqDestroyed, closed, closeHandler,
                 lookup, dirCalls, webCalls, webTarget, procVars, call>>

\* -------------------------------------------------------------- lifecycle

\* The requests' objects are gone with the process.
Gone ==
  /\ stage' = [r \in Reqs |-> "none"]
  /\ reqIn' = [r \in Reqs |-> Request(NoHost, "initialize")]
  /\ reqUrl' = [r \in Reqs |-> <<>>]
  /\ requestTimeout' = [r \in Reqs |-> "unset"]
  /\ res' = [r \in Reqs |-> NewResponse]
  /\ reqDestroyed' = [r \in Reqs |-> FALSE]
  /\ closed' = [r \in Reqs |-> FALSE]
  /\ closeHandler' = [r \in Reqs |-> FALSE]
  /\ lookup' = [r \in Reqs |-> NoAnswer]
  /\ dirCalls' = [r \in Reqs |-> 0]
  /\ webCalls' = [r \in Reqs |-> 0]
  /\ webTarget' = [r \in Reqs |-> <<>>]
  /\ errorListeners' = {}

\* process.exit(code)
Exit(code, by) ==
  /\ proc' = "exited"
  /\ exitCode' = code
  /\ exitBy' = by
  /\ Gone

\* A connection the server still counts.
Open(r) == stage[r] # "none" /\ ~closed[r]

\* gracefulShutdown without its forced-exit timer.
gracefulShutdownNoTimer ==
  /\ proc = "running"
  /\ signals < MaxSignals
  /\ signals' = signals + 1
  /\ closeCbs' = Append(closeCbs, IF listening THEN "cb" ELSE "notRunning")
  /\ listening' = FALSE
  /\ UNCHANGED <<forceTimers, proc, exitCode, exitBy, reqVars, call>>

\* SIGTERM, SIGINT or SIGUSR2: gracefulShutdown(server, signal).
\* server.close(cb) on a server that no longer listens hands cb an error.
gracefulShutdown ==
  /\ proc = "running"
  /\ signals < MaxSignals
  /\ signals' = signals + 1
  /\ closeCbs' = Append(closeCbs, IF listening THEN "cb" ELSE "notRunning")
  /\ listening' = FALSE
  /\ forceTimers' = forceTimers + 1
  /\ UNCHANGED <<proc, exitCode, exitBy, reqVars, call>>

\* The server emits 'close': no handle, no connection. The first callback runs.
ServerClosed ==
  /\ proc = "running"
  /\ ~listening
  /\ closeCbs # <<>>
  /\ \A r \in Reqs : ~Open(r)
  /\ IF Head(closeCbs) = "cb" THEN Exit(0, "close") ELSE Exit(1, "close")
  /\ UNCHANGED <<listening, closeCbs, forceTimers, signals, call>>

\* A 10 s timer of gracefulShutdown fires.
ForceTimeout ==
  /\ proc = "running"
  /\ forceTimers > 0
  /\ Exit(1, "force")
  /\ UNCHANGED <<listening, closeCbs, forceTimers, signals, call>>

\* The server emits 'error': listen() could not bind the port (EADDRINUSE,
\* EACCES), so no connection was accepted before it.
ServerError ==
  /\ proc = "running"
  /\ listening
  /\ \A r \in Reqs : stage[r] = "none"
  /\ Exit(1, "listen")
  /\ UNCHANGED <<listening, closeCbs, forceTimers, signals, call>>

Next ==
  \/ \E r \in Reqs, rq \in Requests : Arrive(r, rq)
  \/ \E r \in Reqs, rec \in Answers : FetchComplete(r, rec)
  \/ \E r \in Reqs : TimerFire(r)
  \/ \E r \in Reqs : ResClose(r)
  \/ \E r \in Reqs : ProxyResponse(r)
  \/ \E r \in Reqs : ProxyEnd(r)
  \/ \E r \in Reqs : ProxyError(r)
  \/ gracefulShutdown
  \/ ServerClosed
  \/ ForceTimeout
  \/ ServerError

Spec == Init /\ [][Next]_vars

\* Node runs a timer's callback once the timer is due: an armed forced-exit
\* timer fires unless the process exits first.
LiveSpec == Init /\ [][Next]_vars /\ WF_vars(ForceTimeout)

\* Node runs a timer's callback once the timer is due: the armed timer of a
\* request fires unless it is cleared, or the process exits, first.
DeadlineSpec == Init /\ [][Next]_vars /\ \A r \in Reqs : WF_vars(TimerFire(r))

\* ------------------------------------------ extractProxyId on its own

\* The words of the Host values handed to extractProxyId.
HostWords == {"a", "b", "."}

\* extractProxyId is about to be called with host.
ExtractCall(host) ==
  [fn |-> "extractProxyId", host |-> host, done |-> FALSE,
   out |-> [ok |-> FALSE, id |-> <<>>, msg |-> <<>>]]

ExtractInit ==
  /\ Started
  /\ call \in { ExtractCall(h) : h \in Words(HostWords, MaxHostLen) }

\* extractProxyId(host) returns or throws.
CallExtractProxyId ==
  /\ call.fn = "extractProxyId"
  /\ ~call.done
  /\ call' = [call EXCEPT !.done = TRUE, !.out = extractProxyId(call.host)]
  /\ UNCHANGED <<reqVars, procVars>>

ExtractSpec == ExtractInit /\ [][CallExtractProxyId]_vars

\* ------------------------------------------- the path rewrite on its own

Schemes == {"http:", "https:"}

\* What follows the authority in the target URLs the directory returns.
TargetBases ==
  { <<>>, <<"/">>, <<"/", "api">>, <<"/", "api", "/">>,
    <<"/", "api", "/", "/">>, <<"/", "a", "/", "b">> }

TargetQueries == { <<>>, <<"?", "k=v">> }

\* The parts of the request targets the clients send.
OriginalPaths ==
  { <<"/">>, <<"/", "foo">>, <<"/", "foo", "/">>, <<"/", "/", "foo">> }

OriginalQueries == { <<>>, <<"?">>, <<"?", "x=1">> }

OriginalFragments == { <<>>, <<"#", "frag">> }

\* handleRequest is about to rewrite req.url = path + query + fragment for
\* the target URL scheme//backend.example.org + base + targetQuery.
RewriteCall(scheme, base, targetQuery, path, query, fragment) ==
  [fn |-> "rewrite",
   origin |-> <<scheme, "//", "backend.example.org">>,
   base |-> base,
   targetUrl |-> <<scheme, "//", "backend.example.org">> \o base \o targetQuery,
   path |-> path,
   query |-> query,
   url |-> path \o query \o fragment,
   done |-> FALSE,
   outTarget |-> <<>>,
   outUrl |-> <<>>]

RewriteInit ==
  /\ Started
  /\ call \in { RewriteCall(sc, b, tq, p, q, f) :
                  sc \in Schemes, b \in TargetBases, tq \in TargetQueries,
                  p \in OriginalPaths, q \in OriginalQueries,
                  f \in OriginalFragments }

\* new URL(targetUrl), the rewrite of req.url and the target option.
CallRewrite ==
  /\ call.fn = "rewrite"
  /\ ~call.done
  /\ LET target == URL(call.targetUrl)
     IN  /\ target.ok
         /\ call' = [call EXCEPT !.done = TRUE,
                                 !.outTarget = target.origin,
                                 !.outUrl = RewriteUrl(target, call.url)]
  /\ UNCHANGED <<reqVars, procVars>>

RewriteSpec == RewriteInit /\ [][CallRewrite]_vars

\* --------------------------------------- the 'proxyRes' listener on its own

SecurityHeaders ==
  {"x-content-type-options", "x-frame-options", "x-xss-protection",
   "referrer-policy"}

\* A header of a response: <<>> when it is not set, <<value>> when it is.
\* !res.getHeader(name) holds for a header not set or set to ''.
Falsy(header) == header = <<>> \/ header = <<"">>

\* The value the listener gives a header.
SecurityDefault(name) ==
  CASE name = "x-content-type-options" -> "nosniff"
    [] name = "x-frame-options" -> "DENY"
    [] name = "x-xss-protection" -> "1; mode=block"
    [] name = "referrer-policy" -> "same-origin"

\* The listener without its referrer-policy statement.
proxyResNoReferrer(headers) ==
  [name \in SecurityHeaders |->
     IF Falsy(headers[name]) /\ name # "referrer-policy"
       THEN <<SecurityDefault(name)>>
       ELSE headers[name]]

\* The 'proxyRes' listener, on the security headers of res.
proxyRes(headers) ==
  [name \in SecurityHeaders |->
     IF Falsy(headers[name]) THEN <<SecurityDefault(name)>> ELSE headers[name]]

\* http-proxy, after it has emitted 'proxyRes', copies every header of the
\* backend's response onto res with res.setHeader.
writeHeaders(headers, upstream) ==
  [name \in SecurityHeaders |->
     IF upstream[name] # <<>> THEN upstream[name] ELSE headers[name]]

\* The headers of a res that handleRequest hands to proxy.web: it sets none.
NoHeaders == [name \in SecurityHeaders |-> <<>>]

\* What the backend sends for a security header: nothing, an empty value,
\* a value of its own.
UpstreamValues == { <<>>, <<"">>, <<"upstream">> }

\* The backend's response, with the headers upstream, has arrived for a res.
HardenCall(upstream) ==
  [fn |-> "proxyRes", upstream |-> upstream, headers |-> NoHeaders,
   runs |-> 0, first |-> NoHeaders, written |-> FALSE]

HardenInit ==
  /\ Started
  /\ call \in { HardenCall(u) : u \in [SecurityHeaders -> UpstreamValues] }

\* The listener runs on res.
CallProxyRes ==
  /\ call.fn = "proxyRes"
  /\ ~call.written
  /\ call.runs < MaxHookRuns
  /\ call' = [call EXCEPT !.headers = proxyRes(@),
                          !.runs = @ + 1,
                          !.first = IF call.runs = 0
                                      THEN proxyRes(call.headers) ELSE @]
  /\ UNCHANGED <<reqVars, procVars>>

\* http-proxy writes the backend's headers and the status to the client.
CallWriteHeaders ==
  /\ call.fn = "proxyRes"
  /\ call.runs >= 1
  /\ ~call.written
  /\ call' = [call EXCEPT !.headers = writeHeaders(@, call.upstream),
                          !.written = TRUE]
  /\ UNCHANGED <<reqVars, procVars>>

HardenNext == CallProxyRes \/ CallWriteHeaders

HardenSpec == HardenInit /\ [][HardenNext]_vars

\* ------------------------------------------------------------ properties

Arrived(r) == stage[r] # "none"

\* The response of r went out with this status.
Answered(r, status) == res[r].headersSent /\ res[r].statusCode = status

\* The lookup of r came back with a response (not a network failure).
Looked(r) == lookup[r].net

\* The host of r is absent or splits into fewer than three labels.
Malformed(r) ==
  HostMissing(reqIn[r].host) \/ Len(Split(reqIn[r].host)) < 3

\* The lookup of r came back with a string url that parses.
Resolved(r) ==
  /\ Looked(r) /\ Ok(lookup[r]) /\ lookup[r].json
  /\ lookup[r].url.t = "string"
  /\ URL(lookup[r].url.s).ok

\* C1: a request whose route was resolved with requireAuth = true and whose
\* body declares the method invoke_something is answered 401 and is never
\* handed to proxy.web.
C1_AuthGating ==
  \A r \in Reqs :
    (/\ Resolved(r)
     /\ lookup[r].requireAuth = Bool("true")
     /\ reqIn[r].method = "invoke_something")
      => Answered(r, 401) /\ webCalls[r] = 0

\* C2: a request whose Host header is absent or has fewer than three labels
\* is answered 400, with no directory call and no proxy.web call.
C2_MalformedHost ==
  \A r \in Reqs :
    (Arrived(r) /\ Malformed(r))
      => Answered(r, 400) /\ dirCalls[r] = 0 /\ webCalls[r] = 0

C2_Witness ==
  /\ reqIn[1].host = NoHost /\ Answered(1, 400)
  /\ reqIn[2].host = <<"abc", ".", "com">> /\ Answered(2, 400)
  /\ requestTimeout[1] = "fired"

\* The directory service answered r with a non-2xx status.
Rejected(r) == Looked(r) /\ ~Ok(lookup[r])

Mentions(r, phrase) ==
  \/ Includes(Split(reqIn[r].host)[1], phrase)
  \/ Includes(lookup[r].statusText, phrase)

C4_InvalidResponse ==
  \A r \in Reqs :
    (/\ Looked(r) /\ Ok(lookup[r])
     /\ \/ ~lookup[r].json
        \/ lookup[r].url.t # "string"
        \/ lookup[r].requireAuth.t # "boolean")
      => Answered(r, 502) /\ webCalls[r] = 0

\* C5: a url string that fails URL parsing gives the client 502 and proxy.web
\* is never called, whatever the string holds.
C5_InvalidTargetUrl ==
  \A r \in Reqs :
    (/\ Looked(r) /\ Ok(lookup[r]) /\ lookup[r].json
     /\ lookup[r].url.t = "string"
     /\ ~URL(lookup[r].url.s).ok)
      => Answered(r, 502) /\ webCalls[r] = 0

\* C6: when the deadline timer of a request fires while its headers are not
\* sent, the response is ended with 504 and the request is destroyed.
C6_Deadline ==
  [][\A r \in Reqs :
       (/\ requestTimeout[r] = "armed"
        /\ requestTimeout'[r] = "fired"
        /\ ~res[r].headersSent)
         => /\ res'[r].headersSent
            /\ res'[r].statusCode = 504
            /\ res'[r].finished
            /\ reqDestroyed'[r]]_vars

C6_Witness ==
  /\ stage[1] = "lookup" /\ requestTimeout[1] = "fired"
  /\ Answered(1, 504) /\ reqDestroyed[1]
  /\ stage[2] = "forwarding" /\ requestTimeout[2] = "fired"
  /\ Answered(2, 504) /\ reqDestroyed[2]

\* C7: when the transport reports an error for a request being forwarded,
\* the client gets 502 if the headers were not sent; if they were, neither
\* status nor headers are written again.
C7_TransportError ==
  [][\A r \in Reqs :
       (stage[r] \in {"forwarding", "streaming"} /\ stage'[r] = "failed")
         => IF ~res[r].headersSent
              THEN /\ res'[r].headersSent
                   /\ res'[r].statusCode = 502
                   /\ res'[r].finished
              ELSE res'[r] = res[r]]_vars

C7_Witness ==
  /\ stage[1] = "failed" /\ Answered(1, 502)
  /\ stage[2] = "failed" /\ Answered(2, 200) /\ ~res[2].finished

\* C8: a request with a well-formed host makes exactly one directory call,
\* and the target it is forwarded to is the one its own lookup returned.
C8_NoCache ==
  \A r \in Reqs :
    (Arrived(r) /\ ~Malformed(r)) =>
      /\ dirCalls[r] = 1
      /\ webCalls[r] > 0 =>
           /\ Resolved(r)
           /\ webTarget[r] = URL(lookup[r].url.s).origin

C8_Witness ==
  /\ reqIn[1] = reqIn[2]
  /\ webCalls[1] = 1 /\ webTarget[1] = SubSeq(UrlApi, 1, 3)
  /\ webCalls[2] = 1 /\ webTarget[2] = SubSeq(UrlOther, 1, 3)

\* C9: the process exits only through a listen error or, after a signal,
\* through the close callback or the forced timeout; with no signal and no
\* listen error the server is running and listening whatever requests failed.
C9_NoFatalRequest ==
  /\ proc = "exited" =>
       \/ exitBy = "listen"
       \/ signals > 0 /\ exitBy \in {"close", "force"}
  /\ (signals = 0 /\ exitBy # "listen") => proc = "running" /\ listening

C9_Witness ==
  /\ proc = "running" /\ listening
  /\ Answered(1, 400) /\ requestTimeout[1] = "fired"
  /\ stage[2] = "failed" /\ Answered(2, 502)

\* C10: after a termination signal no new connection is accepted and the
\* process eventually exits: with code 0 from the close callback, every
\* connection having closed, or with code 1 from the forced-exit timer.
C10_Shutdown ==
  /\ [](signals > 0 => ~listening)
  /\ [][signals > 0 =>
          \A r \in Reqs : stage[r] = "none" => stage'[r] = "none"]_vars
  /\ [][(proc = "running" /\ proc' = "exited" /\ signals > 0) =>
          \/ /\ exitBy' = "close" /\ exitCode' = 0
             /\ \A r \in Reqs : ~Open(r)
          \/ /\ exitBy' = "force" /\ exitCode' = 1
             /\ forceTimers > 0]_vars
  /\ (signals > 0) ~> (proc = "exited")

C10_Witness ==
  /\ proc = "exited" /\ exitCode = 0 /\ exitBy = "close"
  /\ signals = MaxSignals

\* C11: for every Host value, extractProxyId returns the words before the
\* first dot when the host holds at least two dots (three labels), and throws
\* the invalid-host error when it holds fewer; the call changes nothing else.
C11_ExtractProxyId ==
  (call.fn = "extractProxyId" /\ call.done) =>
    LET h == call.host
        out == call.out
        dots == Cardinality({ i \in 1..Len(h) : h[i] = "." })
    IN  /\ IF dots >= 2
             THEN /\ out.ok
                  /\ \A i \in 1..Len(out.id) : out.id[i] # "."
                  /\ SubSeq(h, 1, Len(out.id) + 1) = out.id \o <<".">>
             ELSE /\ ~out.ok
                  /\ out.msg = MsgInvalidHost
        /\ Started

C11_Witness ==
  /\ call.fn = "extractProxyId" /\ call.done
  /\ call.host = <<"a", "b", ".", "a", ".">>
  /\ call.out.ok /\ call.out.id = <<"a", "b">>

\* C12: for every target URL and every original path and query, the target
\* handed to proxy.web is the target URL's origin and req.url is the target's
\* base path without its trailing slashes, followed by the original path and
\* the original query as they were.
C12_PathRewrite ==
  (call.fn = "rewrite" /\ call.done) =>
    LET base == call.base
        k == IF \A i \in 1..Len(base) : base[i] = "/"
               THEN 0
               ELSE CHOOSE i \in 1..Len(base) :
                      base[i] # "/" /\ \A j \in (i + 1)..Len(base) : base[j] = "/"
    IN  /\ call.outTarget = call.origin
        /\ call.outUrl = SubSeq(base, 1, k) \o call.path \o call.query

C12_Witness ==
  /\ call.fn = "rewrite" /\ call.done
  /\ call.targetUrl = <<"https:", "//", "backend.example.org", "/", "api">>
  /\ call.url = <<"/", "foo", "?", "x=1">>
  /\ call.outTarget = <<"https:", "//", "backend.example.org">>
  /\ call.outUrl = <<"/", "api", "/", "foo", "?", "x=1">>

\* C13: a proxied response reaches the client with each of the four security
\* headers set: to the value the backend supplied when it supplied one, to the
\* fixed default otherwise; and a second run of the listener leaves the
\* headers as the first run left them.
C13_SecurityHeaders ==
  call.fn = "proxyRes" =>
    /\ call.written =>
          \A name \in SecurityHeaders :
            /\ call.headers[name] # <<>>
            /\ call.headers[name] =
                 IF call.upstream[name] # <<>>
                   THEN call.upstream[name]
                   ELSE CASE name = "x-content-type-options" -> <<"nosniff">>
                          [] name = "x-frame-options" -> <<"DENY">>
                          [] name = "x-xss-protection" -> <<"1; mode=block">>
                          [] name = "referrer-policy" -> <<"same-origin">>
    /\ (call.runs >= 2 /\ ~call.written) => call.headers = call.first
    /\ (call.runs >= 1 /\ ~call.written) =>
          \A name \in SecurityHeaders : ~Falsy(call.headers[name])

C13_Witness ==
  /\ call.fn = "proxyRes" /\ call.written /\ call.runs = 2
  /\ call.upstream["x-frame-options"] = <<"upstream">>
  /\ call.upstream["referrer-policy"] = <<>>
  /\ call.upstream["x-xss-protection"] = <<"">>
  /\ call.headers["x-frame-options"] = <<"upstream">>
  /\ call.headers["referrer-policy"] = <<"same-origin">>
  /\ call.headers["x-xss-protection"] = <<"">>

\* C14: a transport error reported for one request leaves the response of
\* every other request whose own forwarding has not failed as it was.
C14_Isolation ==
  [][\A r \in Reqs :
       (stage[r] \in {"forwarding", "streaming"} /\ stage'[r] = "failed")
         => \A q \in Reqs \ {r} :
              stage[q] # "failed" => res'[q] = res[q]]_vars

\* C15: once the deadline timer of a request has fired, no further stage of
\* that request runs: no directory call and no proxy.web call is made for it.
C15_Cancellation ==
  [][\A r \in Reqs :
       requestTimeout[r] = "fired"
         => /\ dirCalls'[r] <= dirCalls[r]
            /\ webCalls'[r] <= webCalls[r]]_vars

\* C16: the deadline timer of a request never fires after the response of
\* that request has ended or its connection has closed.
C16_TimerCleared ==
  [][\A r \in Reqs :
       (res[r].finished \/ closed[r])
         => ~(requestTimeout[r] = "armed" /\ requestTimeout'[r] = "fired")]_vars

\* C17: while a forwarded response is streaming, its headers sent, the
\* deadline does not destroy the request.
C17_DeadlineBeforeForwarding ==
  [][\A r \in Reqs :
       (/\ stage[r] = "streaming"
        /\ res[r].headersSent
        /\ ~res[r].finished
        /\ ~reqDestroyed[r])
         => ~reqDestroyed'[r]]_vars

\* C18: a request makes at most one directory call, only with a well-formed
\* host and on arrival, and at most one proxy.web call, only when its own
\* lookup has come back with a string url that parsed, and only from the
\* lookup stage.
C18_StageOrder ==
  /\ [](\A r \in Reqs :
          /\ dirCalls[r] <= 1
          /\ webCalls[r] <= 1
          /\ dirCalls[r] = 1 => ~Malformed(r)
          /\ webCalls[r] = 1 => dirCalls[r] = 1 /\ Resolved(r)
          /\ stage[r] \in {"forwarding", "streaming", "failed"} => webCalls[r] = 1)
  /\ [][\A r \in Reqs :
          /\ dirCalls'[r] > dirCalls[r] =>
                stage[r] = "none" /\ stage'[r] = "lookup" /\ webCalls'[r] = 0
          /\ webCalls'[r] > webCalls[r] =>
                stage[r] = "lookup" /\ stage'[r] = "forwarding"]_vars

C18_Witness ==
  /\ stage[1] = "streaming" /\ dirCalls[1] = 1 /\ webCalls[1] = 1
  /\ lookup[1].url = Str(UrlApi)
  /\ stage[2] = "done" /\ dirCalls[2] = 1 /\ webCalls[2] = 0
  /\ lookup[2].url = Str(<<"not-a-url">>)

\* C19: the status line and headers of a response are written at most once,
\* and each write happens in a state where the headers were not sent.
C19_OneResponse ==
  /\ [](\A r \in Reqs :
          /\ res[r].writes <= 1
          /\ res[r].headersSent <=> res[r].writes = 1)
  /\ [][\A r \in Reqs :
          res'[r].writes > res[r].writes
            => ~res[r].headersSent /\ res'[r].headersSent]_vars

C19_Witness ==
  /\ requestTimeout[1] = "fired" /\ Rejected(1) /\ stage[1] = "done"
  /\ Answered(1, 504) /\ res[1].writes = 1
  /\ requestTimeout[2] = "fired" /\ stage[2] = "failed"
  /\ Answered(2, 504) /\ res[2].writes = 1

\* The response of r has ended with one of these statuses, or its connection
\* is destroyed or closed.
Terminal(r, statuses) ==
  \/ res[r].finished /\ res[r].statusCode \in statuses
  \/ reqDestroyed[r]
  \/ closed[r]

C21_NoHandlerLeft ==
  /\ Cardinality(errorListeners)
       <= Cardinality({ r \in Reqs : stage[r] \in {"forwarding", "streaming"} })
  /\ \A r \in Reqs :
       (stage[r] = "done" /\ webCalls[r] = 1 /\ res[r].finished)
         => r \notin errorListeners

====
